---------------------------- MODULE Spec2Model ----------------------------
(***************************************************************************)
(* Model of src/screens/Profile.tsx: the yup schema of the profile form    *)
(* (profileSchema), the form submission (handleSubmit + yupResolver), the  *)
(* profile update (handleProfileUpdate) and the avatar update              *)
(* (handleUserPhotoSelect).                                                *)
(*                                                                         *)
(* JavaScript runs each handler without interruption between two awaits,   *)
(* so one action models one such segment: from the resolution (or          *)
(* rejection) of the awaited call up to the next await or to the end of    *)
(* the handler, catch and finally blocks included.                         *)
(*                                                                         *)
(* `user` is the object useAuth() hands out.  Both handlers alias it       *)
(* (`const userUpdated = user`) and assign to its fields, so every         *)
(* invocation reads and writes the same record.                            *)
(***************************************************************************)
EXTENDS Integers, Sequences, FiniteSets, TLC

(***************************************************************************)
(* Bounds of the model.                                                    *)
(***************************************************************************)
\* number of handler invocations (of either handler) in one behaviour
MaxRuns == 2
\* longest password / confirmation typed into the form
MaxPwLen == 7
\* longest name typed into the form
MaxNameLen == 2

(***************************************************************************)
(* JavaScript values of the form fields: undefined, null or a string,      *)
(* a string being the sequence of its characters.                          *)
(***************************************************************************)
Undefined == [kind |-> "undefined", chars |-> <<>>]
Null == [kind |-> "null", chars |-> <<>>]
Str(s) == [kind |-> "string", chars |-> s]

IsString(v) == v.kind = "string"
\* value == null in JavaScript: undefined or null
IsAbsent(v) == v.kind \in {"undefined", "null"}
\* !!value
Truthy(v) == IsString(v) /\ Len(v.chars) > 0

\* the string made of n times the character c
Repeat(n, c) == [k \in 1..n |-> c]

(***************************************************************************)
(* profileSchema, with the semantics of yup 1.x (the function form of      *)
(* `then` is the one yup 1.x requires).                                    *)
(***************************************************************************)
NoError == [type |-> "none", message |-> ""]
NameRequired == [type |-> "required", message |-> "Informe o nome."]
PasswordTooShort ==
    [type |-> "min", message |-> "A nova senha deve ter pelo menos 6 digitos."]
ConfirmMismatch ==
    [type |-> "oneOf", message |-> "A confirmacao da nova senha nao confere."]
ConfirmRequired ==
    [type |-> "required", message |-> "Informe a confirmacao da senha."]

\* .min(6, ...)
PasswordMinLength == 6

\* .transform((value) => (!!value ? value : null)); yup does not run the
\* transforms of a field whose raw value is undefined
NullIfFalsy(v) ==
    IF v.kind = "undefined" THEN v
    ELSE IF Truthy(v) THEN v ELSE Null

\* the cast of the object: each field through its transforms
CastPayload(p) ==
    [p EXCEPT !.password = NullIfFalsy(p.password),
              !.confirm_password = NullIfFalsy(p.confirm_password)]

\* String.prototype.trim, on the characters of the model: the blanks at both
\* ends are dropped
RECURSIVE TrimStart(_)
TrimStart(s) == IF s # <<>> /\ Head(s) = " " THEN TrimStart(Tail(s)) ELSE s

RECURSIVE TrimEnd(_)
TrimEnd(s) ==
    IF s # <<>> /\ s[Len(s)] = " " THEN TrimEnd(SubSeq(s, 1, Len(s) - 1)) ELSE s

Trim(s) == TrimEnd(TrimStart(s))

\* mutant of NameErrors: the name is trimmed before its length is taken
NameErrorsTrimmed(name) ==
    IF IsAbsent(name) THEN <<NameRequired>>
    ELSE IF Len(Trim(name.chars)) = 0 THEN <<NameRequired>>
    ELSE <<>>

\* name: yup.string().required('Informe o nome.'): defined, not null, and
\* of length > 0 (no trim() in the schema)
NameErrors(name) ==
    IF IsAbsent(name) THEN <<NameRequired>>
    ELSE IF Len(name.chars) = 0 THEN <<NameRequired>>
    ELSE <<>>

\* mutant of PasswordErrors: the bound is off by one
PasswordErrorsOffByOne(password) ==
    IF IsString(password) /\ Len(password.chars) < PasswordMinLength - 1
    THEN <<PasswordTooShort>>
    ELSE <<>>

\* password: .min(6, ...) is skipped for an absent value
PasswordErrors(password) ==
    IF IsString(password) /\ Len(password.chars) < PasswordMinLength
    THEN <<PasswordTooShort>>
    ELSE <<>>

\* is: (Field) => Field, on the cast value of password
ConfirmIsRequired(password) == Truthy(password)

\* mutant of OneOfPassword: the comparison is made only under the condition
\* of the when(), that is only when password is non-empty
OneOfPasswordWhenRequired(confirm, password) ==
    IF IsAbsent(confirm) \/ ~Truthy(password) THEN <<>>
    ELSE IF confirm = password THEN <<>>
    ELSE <<ConfirmMismatch>>

\* mutant of OneOfPassword: only the lengths are compared
OneOfPasswordByLength(confirm, password) ==
    IF IsAbsent(confirm) THEN <<>>
    ELSE IF Len(confirm.chars) = Len(password.chars) THEN <<>>
    ELSE <<ConfirmMismatch>>

\* .oneOf([yup.ref('password')], ...): skipped for an absent value, else
\* the value must be the (cast) value of password
OneOfPassword(confirm, password) ==
    IF IsAbsent(confirm) THEN <<>>
    ELSE IF confirm = password THEN <<>>
    ELSE <<ConfirmMismatch>>

\* confirm_password: the tests in yup's order (nullable, oneOf, defined),
\* then, when none failed, the string's own required test
ConfirmErrors(confirm, password) ==
    LET required == ConfirmIsRequired(password)
        nullable == IF required /\ confirm.kind = "null"
                    THEN <<ConfirmRequired>> ELSE <<>>
        defined == IF required /\ confirm.kind = "undefined"
                   THEN <<ConfirmRequired>> ELSE <<>>
        initial == nullable \o OneOfPassword(confirm, password) \o defined
    IN IF initial # <<>> THEN initial
       ELSE IF required /\ IsString(confirm) /\ Len(confirm.chars) = 0
            THEN <<ConfirmRequired>>
            ELSE <<>>

\* yupResolver: the first error of each field (abortEarly: false, so every
\* field is validated whatever the others report)
FirstError(errs) == IF errs = <<>> THEN NoError ELSE Head(errs)

yupResolver(p) ==
    LET c == CastPayload(p)
    IN [name |-> FirstError(NameErrors(c.name)),
        password |-> FirstError(PasswordErrors(c.password)),
        confirm_password |->
            FirstError(ConfirmErrors(c.confirm_password, c.password))]

NoErrors == [name |-> NoError, password |-> NoError, confirm_password |-> NoError]


(***************************************************************************)
(* The values the environment hands to the handlers.                       *)
(***************************************************************************)
None == [tag |-> "none"]

\* the characters a name is typed from: a letter and a blank
NameChars == {"a", " "}

RECURSIVE StringsUpTo(_, _)
StringsUpTo(n, chars) ==
    IF n = 0 THEN {<<>>}
    ELSE LET shorter == StringsUpTo(n - 1, chars)
         IN shorter \cup {Append(s, c) : s \in {t \in shorter : Len(t) = n - 1},
                                          c \in chars}

NameValues == {Undefined} \cup {Str(s) : s \in StringsUpTo(MaxNameLen, NameChars)}

PasswordValues ==
    {Undefined} \cup {Str(Repeat(n, "a")) : n \in 0..MaxPwLen}
                \cup {Str(Repeat(n, "b")) : n \in 1..MaxPwLen}

\* FormDataProps
FormPayloads ==
    [name : NameValues, email : {"user@mail"}, old_password : {Undefined},
     password : PasswordValues, confirm_password : PasswordValues]

\* the payloads submitted while the workflows run: two valid ones that differ
\* in the name, one with a new password confirmed, one with an empty name
\* and one with a new password left unconfirmed
SubmitPayloads ==
    LET newPassword == Str(Repeat(PasswordMinLength, "a"))
        Payload(name, password, confirm) ==
            [name |-> name, email |-> "user@mail", old_password |-> Undefined,
             password |-> password, confirm_password |-> confirm]
    IN { Payload(Str(<<"a">>), Undefined, Undefined),
         Payload(Str(<<"a", "a">>), Undefined, Undefined),
         Payload(Str(<<"a">>), newPassword, newPassword),
         Payload(Str(<<>>), Undefined, Undefined),
         Payload(Str(<<"a">>), newPassword, Undefined) }

\* the size check of handleUserPhotoSelect compares size / 1024 / 1024 with 5
PhotoLimitMB == 5
BytesPerMB == 1024 * 1024

\* FileSystem.getInfoAsync: FileInfo & { size?: number }
FileInfo(hasSize, size) == [hasSize |-> hasSize, size |-> size]
FileInfos ==
    {FileInfo(FALSE, 0)} \cup
    {FileInfo(TRUE, n) : n \in {0, PhotoLimitMB * BytesPerMB,
                                PhotoLimitMB * BytesPerMB + 1}}

\* ImagePicker.launchImageLibraryAsync: cancelled, or one asset
Canceled == [canceled |-> TRUE, uri |-> ""]
Selected(uri) == [canceled |-> FALSE, uri |-> uri]
PickerResults == {Canceled, Selected(""), Selected("file:///photo.png")}

\* avatarUpdatedResponse.data.avatar
ServerAvatars == {"u1.png", "u2.png"}

\* what a rejected call throws: an AppError of the api layer or anything else
AppError(message) == [isAppError |-> TRUE, message |-> message]
UnknownError == [isAppError |-> FALSE, message |-> "Network Error"]
ApiErrors == {AppError("Senha antiga nao confere."), UnknownError}

Slots == 1..MaxRuns

(***************************************************************************)
(* State.                                                                  *)
(***************************************************************************)
VARIABLES
    user,            \* the object of useAuth(), shared by every invocation
    storage,         \* what updateUserProfile last saved
    isUpdating,      \* useState(false), line 63
    photoIsLoading,  \* useState(false), line 77
    errors,          \* formState.errors
    run              \* the invocations: run[i] is the state of invocation i

vars == <<user, storage, isUpdating, photoIsLoading, errors, run>>

InitialUser ==
    [id |-> 1, name |-> Str(<<"u">>), email |-> "user@mail", avatar |-> "u0.png"]

\* an invocation not started yet.  Besides its position (pc) it keeps what it
\* was given and what it did: the user as it was when the handler was
\* entered (before), the payload (data), the errors the resolver reported
\* on it (reported), the answers of the picker, of
\* getInfoAsync and of api.patch, the error caught, the snapshot handed to
\* updateUserProfile (pushed), the toast shown and the collaborators called.
NotStarted ==
    [kind |-> "none", pc |-> "idle", before |-> None, data |-> None,
     reported |-> None, picked |-> None,
     info |-> None, response |-> None, caught |-> None, pushed |-> None,
     toast |-> None, calls |-> <<>>]

Init ==
    /\ user = InitialUser
    /\ storage = InitialUser
    /\ isUpdating = FALSE
    /\ photoIsLoading = FALSE
    /\ errors = NoErrors
    /\ run = [i \in Slots |-> NotStarted]

\* invocations start in the order of their numbers
CanStart(i) ==
    /\ run[i].kind = "none"
    /\ \A j \in Slots : j < i => run[j].kind # "none"

(***************************************************************************)
(* toast.show                                                              *)
(***************************************************************************)
Toast(title, bgColor) == [title |-> title, bgColor |-> bgColor]

PhotoTooBigToast ==
    Toast("Essa Imagem e muito grande. Escolha uma de ate 5MB", "red.500")
PhotoUpdatedToast == Toast("Foto atualizada!", "green.500")
ProfileUpdatedToast == Toast("Perfil atualizado com sucesso!", "green.500")
PhotoFallbackTitle ==
    "Nao foi possivel atualizar a foto. Tente novamente mais tarde."
ProfileFallbackTitle ==
    "Nao foi possivel atualizar os dados. Tente novamente mais tarde."

\* mutant of ErrorTitle: the message of whatever was caught is shown
ErrorTitleAlwaysMessage(error, fallback) == error.message

\* the catch blocks: error instanceof AppError ? error.message : fallback
ErrorTitle(error, fallback) ==
    IF error.isAppError THEN error.message ELSE fallback

PhotoErrorToast(error) == Toast(ErrorTitle(error, PhotoFallbackTitle), "red.500")
ProfileErrorToast(error) == Toast(ErrorTitle(error, ProfileFallbackTitle), "red.500")

(***************************************************************************)
(* Helpers of the handlers.                                                *)
(***************************************************************************)
\* the invocation calls a collaborator
Call(r, name) == [r EXCEPT !.calls = Append(@, name)]

\* line 157: userUpdated.name = data.name, on the shared object
MergeName(u, data) == [u EXCEPT !.name = data.name]

\* mutant of MergeAvatar: the response is dropped
MergeAvatarDropsResponse(u, avatar) == u

\* line 126: userUpdated.avatar = avatarUpdatedResponse.data.avatar
MergeAvatar(u, avatar) == [u EXCEPT !.avatar = avatar]

\* mutant of PhotoTooBig: the divisions truncate, as integer divisions would
PhotoTooBigTruncating(info) ==
    /\ info.hasSize
    /\ info.size # 0
    /\ (info.size \div 1024) \div 1024 > PhotoLimitMB

\* mutant of PhotoTooBig: the limit itself is refused
PhotoTooBigAtLimit(info) ==
    /\ info.hasSize
    /\ info.size # 0
    /\ info.size >= PhotoLimitMB * BytesPerMB

\* line 96: photoInfo.size && photoInfo.size / 1024 / 1024 > 5.  The
\* division is the exact one of JavaScript numbers, so the quotient exceeds
\* 5 exactly when the size exceeds 5 * 1024 * 1024.
PhotoTooBig(info) ==
    /\ info.hasSize
    /\ info.size # 0
    /\ info.size > PhotoLimitMB * BytesPerMB

\* updateUserProfile of the auth context, once it has resolved: the session
\* has saved the snapshot it was handed
SessionSaved(snapshot) == storage' = snapshot

\* the Button is rendered with isLoading={isUpdating}: it takes no press
\* while it shows the spinner
ButtonEnabled == ~isUpdating

(***************************************************************************)
(* handleSubmit(handleProfileUpdate)                                       *)
(***************************************************************************)
\* onPress of the Button: handleSubmit starts and awaits the resolver
handleSubmit(i, d) ==
    /\ CanStart(i)
    /\ ButtonEnabled
    /\ run' = [run EXCEPT ![i] =
                  Call([NotStarted EXCEPT !.kind = "submit", !.pc = "resolver",
                                          !.data = d], "resolver")]
    /\ UNCHANGED <<user, storage, isUpdating, photoIsLoading, errors>>

\* mutant of ProfileUpdateStart: the session is updated before api.put is
\* called
ProfileUpdateStartPushesFirst(i, data, errs) ==
    /\ isUpdating' = TRUE
    /\ user' = MergeName(user, data)
    /\ run' = [run EXCEPT ![i] =
                  Call(Call([@ EXCEPT !.pc = "put", !.before = user,
                                      !.data = data, !.reported = errs,
                                      !.pushed = user'],
                            "updateUserProfile"),
                       "put")]

\* the first segment of handleProfileUpdate, lines 154-159: the flag, the
\* write of the name into the shared object, the call of api.put
ProfileUpdateStart(i, data, errs) ==
    /\ isUpdating' = TRUE
    /\ user' = MergeName(user, data)
    /\ run' = [run EXCEPT ![i] =
                  Call([@ EXCEPT !.pc = "put", !.before = user, !.data = data,
                                 !.reported = errs],
                       "put")]

\* mutant of ResolverDone: handleProfileUpdate is called whatever the
\* resolver reports
ResolverDoneIgnoresErrors(i) ==
    /\ run[i].kind = "submit"
    /\ run[i].pc = "resolver"
    /\ LET errs == yupResolver(run[i].data)
       IN /\ errors' = errs
          /\ ProfileUpdateStart(i, CastPayload(run[i].data), errs)
          /\ UNCHANGED <<storage, photoIsLoading>>

\* the resolver has answered: with errors handleSubmit sets them and
\* returns, without it calls handleProfileUpdate with the cast values
ResolverDone(i) ==
    /\ run[i].kind = "submit"
    /\ run[i].pc = "resolver"
    /\ LET errs == yupResolver(run[i].data)
       IN /\ errors' = errs
          /\ IF errs = NoErrors
             THEN /\ ProfileUpdateStart(i, CastPayload(run[i].data), errs)
                  /\ UNCHANGED <<storage, photoIsLoading>>
             ELSE /\ run' = [run EXCEPT ![i] =
                                [@ EXCEPT !.pc = "done", !.reported = errs]]
                  /\ UNCHANGED <<user, storage, isUpdating, photoIsLoading>>

\* lines 168-181: catch (the error toast) and finally
ProfileUpdateFailed(i, error) ==
    /\ run' = [run EXCEPT ![i] = [@ EXCEPT !.pc = "done", !.caught = error,
                                           !.toast = ProfileErrorToast(error)]]
    /\ isUpdating' = FALSE

\* api.put resolves: line 161 calls updateUserProfile(userUpdated)
PutResolved(i) ==
    /\ run[i].kind = "submit"
    /\ run[i].pc = "put"
    /\ run' = [run EXCEPT ![i] =
                  Call([@ EXCEPT !.pc = "session", !.response = [status |-> "ok"],
                                 !.pushed = user],
                       "updateUserProfile")]
    /\ UNCHANGED <<user, storage, isUpdating, photoIsLoading, errors>>

\* api.put rejects
PutRejected(i, error) ==
    /\ run[i].kind = "submit"
    /\ run[i].pc = "put"
    /\ ProfileUpdateFailed(i, error)
    /\ UNCHANGED <<user, storage, photoIsLoading, errors>>

\* updateUserProfile resolves: lines 163-167, then finally
ProfileSessionResolved(i) ==
    /\ run[i].kind = "submit"
    /\ run[i].pc = "session"
    /\ SessionSaved(run[i].pushed)
    /\ run' = [run EXCEPT ![i] = [@ EXCEPT !.pc = "done",
                                           !.toast = ProfileUpdatedToast]]
    /\ isUpdating' = FALSE
    /\ UNCHANGED <<user, photoIsLoading, errors>>

\* updateUserProfile rejects
ProfileSessionRejected(i) ==
    /\ run[i].kind = "submit"
    /\ run[i].pc = "session"
    /\ ProfileUpdateFailed(i, UnknownError)
    /\ UNCHANGED <<user, storage, photoIsLoading, errors>>

(***************************************************************************)
(* handleUserPhotoSelect                                                   *)
(***************************************************************************)
\* onPress of "Alterar foto", lines 80-87: the flag, then the picker
handleUserPhotoSelect(i) ==
    /\ CanStart(i)
    /\ photoIsLoading' = TRUE
    /\ run' = [run EXCEPT ![i] =
                  Call([NotStarted EXCEPT !.kind = "photo", !.pc = "picker",
                                          !.before = user],
                       "picker")]
    /\ UNCHANGED <<user, storage, isUpdating, errors>>

\* mutant of PhotoReturn: the return leaves without the finally block
PhotoReturnSkipsFinally(i, r) ==
    /\ run' = [run EXCEPT ![i] = [r EXCEPT !.pc = "done"]]
    /\ UNCHANGED photoIsLoading

\* a return inside the try, or its normal end: only finally runs
PhotoReturn(i, r) ==
    /\ run' = [run EXCEPT ![i] = [r EXCEPT !.pc = "done"]]
    /\ photoIsLoading' = FALSE

\* lines 137-150: catch (the error toast) and finally
PhotoFailed(i, error) ==
    PhotoReturn(i, [run[i] EXCEPT !.caught = error,
                                  !.toast = PhotoErrorToast(error)])

\* mutant of PickerResolved: a cancelled pick is taken for a failure
PickerResolvedCancelFails(i, result) ==
    /\ run[i].kind = "photo"
    /\ run[i].pc = "picker"
    /\ LET r == [run[i] EXCEPT !.picked = result]
       IN IF result.canceled \/ result.uri = ""
          THEN PhotoReturn(i, [r EXCEPT !.caught = UnknownError,
                                        !.toast = PhotoErrorToast(UnknownError)])
          ELSE /\ run' = [run EXCEPT ![i] =
                             Call([r EXCEPT !.pc = "getInfo"], "getInfo")]
               /\ UNCHANGED photoIsLoading
    /\ UNCHANGED <<user, storage, isUpdating, errors>>

\* the picker resolves, lines 89-94: return when cancelled, skip the whole
\* block when the asset has no uri, else call getInfoAsync
PickerResolved(i, result) ==
    /\ run[i].kind = "photo"
    /\ run[i].pc = "picker"
    /\ LET r == [run[i] EXCEPT !.picked = result]
       IN IF result.canceled
          THEN PhotoReturn(i, r)
          ELSE IF result.uri = ""
               THEN PhotoReturn(i, r)
               ELSE /\ run' = [run EXCEPT ![i] =
                                  Call([r EXCEPT !.pc = "getInfo"], "getInfo")]
                    /\ UNCHANGED photoIsLoading
    /\ UNCHANGED <<user, storage, isUpdating, errors>>

\* the picker rejects
PickerRejected(i) ==
    /\ run[i].kind = "photo"
    /\ run[i].pc = "picker"
    /\ PhotoFailed(i, UnknownError)
    /\ UNCHANGED <<user, storage, isUpdating, errors>>

\* getInfoAsync resolves, lines 96-123: the size notice and return, or the
\* call of api.patch
GetInfoResolved(i, info) ==
    /\ run[i].kind = "photo"
    /\ run[i].pc = "getInfo"
    /\ LET r == [run[i] EXCEPT !.info = info]
       IN IF PhotoTooBig(info)
          THEN PhotoReturn(i, [r EXCEPT !.toast = PhotoTooBigToast])
          ELSE /\ run' = [run EXCEPT ![i] =
                             Call([r EXCEPT !.pc = "patch"], "patch")]
               /\ UNCHANGED photoIsLoading
    /\ UNCHANGED <<user, storage, isUpdating, errors>>

\* getInfoAsync rejects
GetInfoRejected(i) ==
    /\ run[i].kind = "photo"
    /\ run[i].pc = "getInfo"
    /\ PhotoFailed(i, UnknownError)
    /\ UNCHANGED <<user, storage, isUpdating, errors>>

\* mutant of PatchResolved: the toast of success is shown without awaiting
\* updateUserProfile
PatchResolvedToastsEarly(i, avatar) ==
    /\ run[i].kind = "photo"
    /\ run[i].pc = "patch"
    /\ user' = MergeAvatar(user, avatar)
    /\ run' = [run EXCEPT ![i] =
                  Call([@ EXCEPT !.pc = "session", !.response = [avatar |-> avatar],
                                 !.pushed = user', !.toast = PhotoUpdatedToast],
                       "updateUserProfile")]
    /\ UNCHANGED <<storage, isUpdating, photoIsLoading, errors>>

\* api.patch resolves, lines 125-127: the avatar is written into the shared
\* object, which is handed to updateUserProfile
PatchResolved(i, avatar) ==
    /\ run[i].kind = "photo"
    /\ run[i].pc = "patch"
    /\ user' = MergeAvatar(user, avatar)
    /\ run' = [run EXCEPT ![i] =
                  Call([@ EXCEPT !.pc = "session", !.response = [avatar |-> avatar],
                                 !.pushed = user'],
                       "updateUserProfile")]
    /\ UNCHANGED <<storage, isUpdating, photoIsLoading, errors>>

\* api.patch rejects
PatchRejected(i, error) ==
    /\ run[i].kind = "photo"
    /\ run[i].pc = "patch"
    /\ PhotoFailed(i, error)
    /\ UNCHANGED <<user, storage, isUpdating, errors>>

\* updateUserProfile resolves: lines 129-135, then finally
PhotoSessionResolved(i) ==
    /\ run[i].kind = "photo"
    /\ run[i].pc = "session"
    /\ SessionSaved(run[i].pushed)
    /\ PhotoReturn(i, [run[i] EXCEPT !.toast = PhotoUpdatedToast])
    /\ UNCHANGED <<user, isUpdating, errors>>

\* mutant of PhotoSessionRejected: updateUserProfile is awaited outside the
\* try, so its failure leaves the handler as a rejected promise
PhotoSessionRejectedPropagates(i) ==
    /\ run[i].kind = "photo"
    /\ run[i].pc = "session"
    /\ run' = [run EXCEPT ![i].pc = "rejected"]
    /\ UNCHANGED <<user, storage, isUpdating, photoIsLoading, errors>>

\* updateUserProfile rejects
PhotoSessionRejected(i) ==
    /\ run[i].kind = "photo"
    /\ run[i].pc = "session"
    /\ PhotoFailed(i, UnknownError)
    /\ UNCHANGED <<user, storage, isUpdating, errors>>

(***************************************************************************)
(* The screen: both handlers, any number of times up to MaxRuns, in any    *)
(* interleaving of their segments.                                         *)
(***************************************************************************)
Next ==
    \E i \in Slots :
        \/ \E d \in SubmitPayloads : handleSubmit(i, d)
        \/ ResolverDone(i)
        \/ PutResolved(i)
        \/ \E e \in ApiErrors : PutRejected(i, e)
        \/ ProfileSessionResolved(i)
        \/ ProfileSessionRejected(i)
        \/ handleUserPhotoSelect(i)
        \/ \E result \in PickerResults : PickerResolved(i, result)
        \/ PickerRejected(i)
        \/ \E info \in FileInfos : GetInfoResolved(i, info)
        \/ GetInfoRejected(i)
        \/ \E avatar \in ServerAvatars : PatchResolved(i, avatar)
        \/ \E e \in ApiErrors : PatchRejected(i, e)
        \/ PhotoSessionResolved(i)
        \/ PhotoSessionRejected(i)

Spec == Init /\ [][Next]_vars

(***************************************************************************)
(* The photo workflow alone (no step of it reads what a submission        *)
(* writes), when every call a run awaits (the picker, getInfoAsync,        *)
(* api.patch, updateUserProfile) ends, by resolving or by rejecting: the   *)
(* continuation of a settled promise is always run by the event loop.      *)
(***************************************************************************)
PhotoProgress(i) ==
    \/ \E result \in PickerResults : PickerResolved(i, result)
    \/ PickerRejected(i)
    \/ \E info \in FileInfos : GetInfoResolved(i, info)
    \/ GetInfoRejected(i)
    \/ \E avatar \in ServerAvatars : PatchResolved(i, avatar)
    \/ \E e \in ApiErrors : PatchRejected(i, e)
    \/ PhotoSessionResolved(i)
    \/ PhotoSessionRejected(i)

NextPhoto == \E i \in Slots : handleUserPhotoSelect(i) \/ PhotoProgress(i)

SpecLive ==
    Init /\ [][NextPhoto]_vars /\ \A i \in Slots : WF_vars(PhotoProgress(i))

(***************************************************************************)
(* The schema alone: one submission of any payload of the form, up to the  *)
(* answer of the resolver.                                                 *)
(***************************************************************************)
NextValidation ==
    \/ \E d \in FormPayloads : handleSubmit(1, d)
    \/ ResolverDone(1)

SpecValidation == Init /\ [][NextValidation]_vars

(***************************************************************************)
(* Properties.                                                             *)
(***************************************************************************)
IsPhoto(i) == run[i].kind = "photo"
IsSubmit(i) == run[i].kind = "submit"
Done(i) == run[i].pc = "done"
Called(i, name) == \E k \in 1..Len(run[i].calls) : run[i].calls[k] = name

\* the file-size lookup of invocation r reported more than 5 * 1024 * 1024 bytes
ReportedOversize(r) ==
    /\ r.info # None
    /\ r.info.hasSize
    /\ r.info.size > 5 * 1024 * 1024

\* C1: a photo run whose file-size lookup reports more than 5 * 1024 * 1024
\* bytes never calls api.patch; the step that receives the size shows the
\* size-limit notice, ends the run and changes neither the user nor what the
\* session saved, and the run never hands a snapshot to the session.
C1_OversizeNeverUploaded ==
    /\ [](\A i \in Slots :
            IsPhoto(i) /\ ReportedOversize(run[i]) =>
                /\ ~Called(i, "patch")
                /\ ~Called(i, "updateUserProfile")
                /\ Done(i)
                /\ run[i].toast = PhotoTooBigToast
                /\ run[i].pushed = None)
    /\ [][\A i \in Slots :
            IsPhoto(i) /\ ~ReportedOversize(run[i]) /\ ReportedOversize(run'[i]) =>
                user' = user /\ storage' = storage]_vars

C1_Witness ==
    \E i \in Slots :
        /\ IsPhoto(i) /\ Done(i)
        /\ ReportedOversize(run[i])
        /\ run[i].toast = PhotoTooBigToast

\* C2: when api.put fails, the user is, at the return of handleProfileUpdate,
\* what it was when the handler was called, and updateUserProfile is not called.
C2_FailedPutLeavesUser ==
    [][\A i \in Slots :
         IsSubmit(i) /\ run[i].pc = "put" /\ run'[i].pc = "done" =>
             /\ user' = run[i].before
             /\ ~Called(i, "updateUserProfile")
             /\ run'[i].calls = run[i].calls]_vars

\* handleProfileUpdate was entered by invocation i
EnteredProfileUpdate(i) == IsSubmit(i) /\ run[i].before # None

\* C3: the step in which an invocation of either handler returns sets the
\* handler's flag to false, whatever the path (success, failure of any
\* collaborator, cancellation, size notice), and a returned invocation
\* changes nothing afterwards.
C3_FlagClearedOnReturn ==
    [][\A i \in Slots :
         /\ (IsPhoto(i) /\ ~Done(i) /\ run'[i].pc = "done"
                => photoIsLoading' = FALSE)
         /\ (EnteredProfileUpdate(i) /\ ~Done(i) /\ run'[i].pc = "done"
                => isUpdating' = FALSE)
         /\ (Done(i) => run'[i] = run[i])]_vars

C3_Witness ==
    \E i, j \in Slots :
        /\ IsPhoto(i) /\ Done(i) /\ run[i].caught # None
        /\ EnteredProfileUpdate(j) /\ Done(j) /\ run[j].caught # None
        /\ ~photoIsLoading /\ ~isUpdating

\* C4: a photo run whose picker reports cancellation makes no further call
\* (no getInfoAsync, no api.patch, no updateUserProfile), shows no toast,
\* catches nothing and ends; the step that receives the cancellation leaves
\* the user and the saved session as they were and clears photoIsLoading.
C4_CancelIsSilent ==
    /\ [](\A i \in Slots :
            IsPhoto(i) /\ run[i].picked = Canceled =>
                /\ Done(i)
                /\ run[i].calls = <<"picker">>
                /\ run[i].toast = None
                /\ run[i].caught = None
                /\ run[i].pushed = None)
    /\ [][\A i \in Slots :
            IsPhoto(i) /\ run[i].picked = None /\ run'[i].picked = Canceled =>
                /\ user' = user
                /\ storage' = storage
                /\ photoIsLoading' = FALSE]_vars

C4_Witness ==
    \E i \in Slots : IsPhoto(i) /\ Done(i) /\ run[i].picked = Canceled

\* C5: the snapshot a photo run hands to updateUserProfile carries the
\* avatar the server returned to that run's api.patch, also when another
\* photo run is under way.
C5_PushedAvatarIsResponse ==
    \A i \in Slots :
        IsPhoto(i) /\ run[i].pushed # None =>
            run[i].pushed.avatar = run[i].response.avatar

\* two photo runs overlap, each with its own answer of the server
C5_Witness ==
    \E i, j \in Slots :
        /\ IsPhoto(i) /\ run[i].pc = "session"
        /\ IsPhoto(j) /\ run[j].pc = "session"
        /\ run[i].response.avatar # run[j].response.avatar
        /\ run[i].pushed.avatar = run[i].response.avatar
        /\ run[j].pushed.avatar = run[j].response.avatar

\* C6: the snapshot a profile submit hands to updateUserProfile differs from
\* the user as it was when handleProfileUpdate was called only in name, which
\* is the name of the payload; it has the fields of a user and no other.
C6_PushedDiffersOnlyInName ==
    \A i \in Slots :
        IsSubmit(i) /\ run[i].pushed # None =>
            /\ run[i].pushed.name = run[i].data.name
            /\ run[i].pushed.id = run[i].before.id
            /\ run[i].pushed.email = run[i].before.email
            /\ run[i].pushed.avatar = run[i].before.avatar
            /\ DOMAIN run[i].pushed = {"id", "name", "email", "avatar"}

(***************************************************************************)
(* Properties of the schema, under SpecValidation: invocation 1 is the one *)
(* submission, of any payload of the form.                                 *)
(***************************************************************************)
\* the resolver has answered the submission: errors holds its answer
Validated == IsSubmit(1) /\ run[1].pc # "resolver"

\* the field holds a non-empty string (the cast keeps that: it turns only
\* the empty string into null)
NonEmpty(v) == IsString(v) /\ v.chars # <<>>

C8_ShortPasswordRejected ==
    Validated /\ IsString(run[1].data.password)
              /\ Len(run[1].data.password.chars) \in 1..5 =>
        /\ errors.password = PasswordTooShort
        /\ Done(1)
        /\ ~Called(1, "put")

C8_Witness ==
    /\ Validated
    /\ Len(run[1].data.password.chars) = 5
    /\ run[1].data.confirm_password = run[1].data.password
    /\ NonEmpty(run[1].data.name)
    /\ errors = [NoErrors EXCEPT !.password = PasswordTooShort]

\* C9 as stated: with password non-empty and confirm_password different
\* from it, the Mismatch error is reported on confirm_password.
C9_DifferentConfirmIsMismatch ==
    Validated /\ NonEmpty(run[1].data.password)
              /\ run[1].data.confirm_password # run[1].data.password =>
        errors.confirm_password = ConfirmMismatch

\* C9 amended: with password non-empty, a non-empty confirm_password
\* different from it gets the Mismatch error and the payload is rejected;
\* an empty or absent confirm_password gets the Required error instead.
C9_DifferentConfirmRejected ==
    Validated /\ NonEmpty(run[1].data.password)
              /\ run[1].data.confirm_password # run[1].data.password =>
        /\ errors.confirm_password =
              IF NonEmpty(run[1].data.confirm_password)
              THEN ConfirmMismatch ELSE ConfirmRequired
        /\ Done(1)
        /\ ~Called(1, "put")

C9_Witness ==
    /\ Validated
    /\ Len(run[1].data.password.chars) = PasswordMinLength
    /\ Len(run[1].data.confirm_password.chars) = PasswordMinLength
    /\ run[1].data.confirm_password # run[1].data.password
    /\ errors.confirm_password = ConfirmMismatch

\* the name is empty once trimmed
EmptyWhenTrimmed(name) == IsString(name) /\ Trim(name.chars) = <<>>

\* C10 as stated: a payload whose name is empty after trimming gets the
\* Required error on name.
C10_BlankNameRejected ==
    Validated /\ EmptyWhenTrimmed(run[1].data.name) =>
        errors.name = NameRequired

\* C10 amended: the name is not trimmed: the Required error is reported on
\* name exactly when name is absent or the empty string, and a name made
\* only of blanks is accepted.
C10_EmptyNameRejected ==
    Validated =>
        /\ errors.name = NameRequired
              <=> (IsAbsent(run[1].data.name) \/ run[1].data.name = Str(<<>>))
        /\ errors.name # NameRequired => errors.name = NoError
        /\ errors.name = NameRequired => Done(1) /\ ~Called(1, "put")

C10_Witness ==
    /\ Validated
    /\ run[1].data.name = Str(<<>>)
    /\ errors.name = NameRequired
    /\ Done(1) /\ ~Called(1, "put")

(***************************************************************************)
(* Properties of the workflows, under Spec.                                *)
(***************************************************************************)
\* C11: api.put is called only with a payload on which the resolver
\* reported no error: never with an empty name nor with a new password
\* left unconfirmed; and the step in which the resolver reports an error
\* ends the submission with isUpdating, the user and the saved session
\* as they were.
C11_InvalidPayloadNeverSent ==
    /\ [](\A i \in Slots :
            /\ IsSubmit(i) /\ Called(i, "put") =>
                  /\ run[i].reported = NoErrors
                  /\ NonEmpty(run[i].data.name)
                  /\ NonEmpty(run[i].data.password)
                        => run[i].data.confirm_password = run[i].data.password
            /\ IsSubmit(i) /\ run[i].reported # None
                           /\ run[i].reported # NoErrors =>
                  /\ Done(i)
                  /\ run[i].calls = <<"resolver">>
                  /\ run[i].before = None
                  /\ run[i].toast = None)
    /\ [][\A i \in Slots :
            IsSubmit(i) /\ run[i].pc = "resolver"
                        /\ run'[i].reported # None
                        /\ run'[i].reported # NoErrors =>
                /\ isUpdating' = isUpdating
                /\ user' = user
                /\ storage' = storage]_vars

C11_Witness ==
    \E i, j \in Slots :
        /\ IsSubmit(i) /\ Done(i)
        /\ run[i].reported.name = NameRequired
        /\ ~Called(i, "put")
        /\ IsSubmit(j) /\ Called(j, "put")
        /\ run[j].reported = NoErrors

\* C12: whatever an invocation catches, the title of its toast is the
\* message of the error when it is an AppError, and else the fixed text of the
\* handler (the one of the photo for handleUserPhotoSelect, the one of the
\* data for handleProfileUpdate), never the message of the unknown error.
C12_ErrorTitleClassified ==
    \A i \in Slots :
        run[i].caught # None =>
            /\ run[i].toast # None
            /\ run[i].toast.bgColor = "red.500"
            /\ run[i].caught.isAppError =>
                  run[i].toast.title = run[i].caught.message
            /\ ~run[i].caught.isAppError /\ IsPhoto(i) =>
                  run[i].toast.title =
                     "Nao foi possivel atualizar a foto. Tente novamente mais tarde."
            /\ ~run[i].caught.isAppError /\ IsSubmit(i) =>
                  run[i].toast.title =
                     "Nao foi possivel atualizar os dados. Tente novamente mais tarde."
            /\ ~run[i].caught.isAppError =>
                  run[i].toast.title # run[i].caught.message

C12_Witness ==
    \E i, j \in Slots :
        /\ IsPhoto(i) /\ run[i].caught = UnknownError
        /\ run[i].toast.title = PhotoFallbackTitle
        /\ IsSubmit(j) /\ run[j].caught # None /\ run[j].caught.isAppError
        /\ run[j].toast.title = run[j].caught.message

\* the number of calls of a collaborator by invocation i
CountCalls(i, name) ==
    Cardinality({k \in 1..Len(run[i].calls) : run[i].calls[k] = name})

\* the remote call of invocation i (api.patch or api.put) has resolved
RemoteSucceeded(i) == run[i].response # None

\* C13: an invocation calls updateUserProfile once when its remote call has
\* resolved and never otherwise (not when cancelled, refused for its size,
\* nor when the file-size lookup or the remote call failed), and the call
\* comes right after the remote call in the invocation's calls.
C13_SessionUpdatedOncePerSuccess ==
    \A i \in Slots :
        /\ CountCalls(i, "updateUserProfile") = IF RemoteSucceeded(i) THEN 1 ELSE 0
        /\ \A k \in 1..Len(run[i].calls) :
              run[i].calls[k] = "updateUserProfile" =>
                  /\ k > 1
                  /\ run[i].calls[k - 1] = IF IsPhoto(i) THEN "patch" ELSE "put"
        /\ run[i].picked = Canceled => ~Called(i, "updateUserProfile")
        /\ ReportedOversize(run[i]) => ~Called(i, "updateUserProfile")
        /\ run[i].caught # None /\ ~RemoteSucceeded(i) =>
              ~Called(i, "updateUserProfile")

C13_Witness ==
    \E i, j \in Slots :
        /\ IsPhoto(i) /\ Done(i) /\ RemoteSucceeded(i)
        /\ CountCalls(i, "updateUserProfile") = 1
        /\ IsSubmit(j) /\ Done(j) /\ Called(j, "put") /\ ~RemoteSucceeded(j)
        /\ CountCalls(j, "updateUserProfile") = 0

\* the positions of an invocation
Positions ==
    {"idle", "resolver", "put", "picker", "getInfo", "patch", "session", "done"}

\* the step is one in which the call awaited by invocation i fails: the
\* file-size lookup or the remote call ends without an answer, or the
\* session update ends without the toast of success
FailureStep(i) ==
    \/ /\ run[i].pc = "getInfo" /\ run'[i].pc # "getInfo"
       /\ run'[i].info = None
    \/ /\ run[i].pc \in {"patch", "put"} /\ run'[i].pc # run[i].pc
       /\ run'[i].response = None
    \/ /\ run[i].pc = "session" /\ run'[i].pc # "session"
       /\ run'[i].toast \notin {PhotoUpdatedToast, ProfileUpdatedToast}

\* C14: a failure of the file-size lookup, of api.patch, of api.put or of
\* updateUserProfile is caught by the handler: the step ends the invocation
\* normally with the error recorded and one red toast shown; no invocation
\* is ever left as a rejected promise.
C14_FailuresAreCaught ==
    /\ [](\A i \in Slots :
            /\ run[i].pc \in Positions
            /\ run[i].caught # None =>
                  Done(i) /\ run[i].toast # None
                          /\ run[i].toast.bgColor = "red.500")
    /\ [][\A i \in Slots :
            FailureStep(i) =>
                /\ run'[i].pc = "done"
                /\ run'[i].caught # None
                /\ run'[i].toast # None
                /\ run'[i].toast.bgColor = "red.500"]_vars

\* each of the four calls has failed in some invocation: here the session
\* update of a photo run and the api.put of a submit
C14_Witness ==
    \E i, j \in Slots :
        /\ IsPhoto(i) /\ Done(i) /\ Called(i, "updateUserProfile")
        /\ run[i].caught # None
        /\ IsSubmit(j) /\ Done(j) /\ Called(j, "put") /\ ~RemoteSucceeded(j)
        /\ run[j].caught # None

\* invocations of handleProfileUpdate under way
SubmitsUnderWay == {i \in Slots : EnteredProfileUpdate(i) /\ ~Done(i)}

\* invocations of handleUserPhotoSelect under way
PhotosUnderWay == {i \in Slots : IsPhoto(i) /\ ~Done(i)}

\* C15: at most one invocation of handleProfileUpdate is under way, and so
\* at most one api.put is pending.
C15_SingleSubmitUnderWay ==
    /\ Cardinality(SubmitsUnderWay) <= 1
    /\ Cardinality({i \in Slots : IsSubmit(i) /\ run[i].pc = "put"}) <= 1

\* the photo workflow is idle: no run under way and the flag down
PhotoIdle == PhotosUnderWay = {} /\ ~photoIsLoading

\* C16 (under SpecLive): whenever photo runs are under way the workflow
\* comes back to idle: every run that has started has returned, whatever
\* its path, and photoIsLoading is false.
C16_PhotoRunReturnsToIdle == (PhotosUnderWay # {}) ~> PhotoIdle

\* a run has failed, the workflow is idle again and the next run has started
\* from there
C16_Witness ==
    \E i, j \in Slots :
        /\ i < j
        /\ IsPhoto(i) /\ Done(i) /\ run[i].caught # None
        /\ IsPhoto(j) /\ Done(j) /\ run[j].toast = PhotoUpdatedToast
        /\ PhotoIdle

\* the calls of a photo run, in the order of the handler
PhotoCallOrder == <<"picker", "getInfo", "patch", "updateUserProfile">>

\* C17: the calls of a photo run are made in the order picker, getInfoAsync,
\* api.patch, updateUserProfile, each once the one before has answered (so
\* api.patch never before the file-size lookup has answered), and the toast
\* of success is shown only once updateUserProfile has resolved.
C17_PhotoStepsInOrder ==
    \A i \in Slots :
        IsPhoto(i) =>
            /\ Len(run[i].calls) <= Len(PhotoCallOrder)
            /\ run[i].calls = SubSeq(PhotoCallOrder, 1, Len(run[i].calls))
            /\ Called(i, "getInfo") =>
                  run[i].picked # None /\ ~run[i].picked.canceled
            /\ Called(i, "patch") => run[i].info # None
            /\ Called(i, "updateUserProfile") => run[i].response # None
            /\ run[i].toast = PhotoUpdatedToast =>
                  /\ Done(i)
                  /\ run[i].calls = PhotoCallOrder
                  /\ run[i].caught = None
            /\ run[i].pc = "session" => run[i].toast = None

C17_Witness ==
    \E i \in Slots :
        /\ IsPhoto(i) /\ Done(i)
        /\ run[i].calls = PhotoCallOrder
        /\ run[i].toast = PhotoUpdatedToast
        /\ storage = run[i].pushed

\* C18: isUpdating is true whenever an invocation of handleProfileUpdate is
\* under way and photoIsLoading is true whenever a photo run is under way.
C18_FlagsSignalInProgress ==
    /\ SubmitsUnderWay # {} => isUpdating
    /\ PhotosUnderWay # {} => photoIsLoading

\* the names the server has confirmed: the one the session started with and
\* those of the submissions whose api.put has resolved
ConfirmedNames ==
    {InitialUser.name} \cup
    {run[j].data.name : j \in {k \in Slots : IsSubmit(k) /\ RemoteSucceeded(k)}}

\* C19: the snapshot a photo run hands to updateUserProfile carries a name
\* the server has confirmed by then.
C19_PhotoPushesConfirmedName ==
    [][\A i \in Slots :
         IsPhoto(i) /\ run[i].pushed = None /\ run'[i].pushed # None =>
             run'[i].pushed.name \in ConfirmedNames]_vars

\* the picker handed invocation i an asset with a uri
PickedWithUri(i) ==
    /\ run[i].picked # None
    /\ ~run[i].picked.canceled
    /\ run[i].picked.uri # ""

\* the file-size lookup of invocation i answered with no size, with zero or
\* with at most 5 * 1024 * 1024 bytes
SizeAccepted(i) ==
    /\ run[i].info # None
    /\ \/ ~run[i].info.hasSize
       \/ run[i].info.size = 0
       \/ run[i].info.size <= 5 * 1024 * 1024

\* C20: a photo run calls api.patch if and only if the picker handed it an
\* asset with a uri and the file-size lookup answered with no size, zero or
\* at most 5 * 1024 * 1024 bytes; a missing size brings no size notice.
C20_UploadedIffSizeAccepted ==
    \A i \in Slots :
        IsPhoto(i) =>
            /\ Called(i, "patch") <=> (PickedWithUri(i) /\ SizeAccepted(i))
            /\ run[i].info # None /\ ~run[i].info.hasSize =>
                  run[i].toast # PhotoTooBigToast

\* one run uploaded an image of exactly 5 * 1024 * 1024 bytes, another one
\* an image whose size is missing
C20_Witness ==
    \E i, j \in Slots :
        /\ IsPhoto(i) /\ Called(i, "patch")
        /\ run[i].info = FileInfo(TRUE, 5 * 1024 * 1024)
        /\ IsPhoto(j) /\ Called(j, "patch")
        /\ run[j].info = FileInfo(FALSE, 0)

=============================================================================
